---- MODULE Spec2Model ----
(***************************************************************************)
(* GraphicDesignerTool: main() builds an ImageGenerator from the loaded    *)
(* configuration and hands its get_images method to the UI; get_images     *)
(* asks the generation API for image URLs, downloads every URL in turn and *)
(* opens the first downloaded buffer as an image.                          *)
(*                                                                         *)
(* The external collaborators (load_config, openai.images.generate,       *)
(* requests.get, PIL.Image.open, gradio) are the environment: their        *)
(* answers are chosen nondeterministically from small sets.  `log` is a    *)
(* history variable: the external calls of the current method call, as a   *)
(* mock would record them.                                                 *)
(***************************************************************************)
EXTENDS Integers, Sequences, FiniteSets, TLC

\* ------------------------------------------------------------------ bounds

\* Largest number of image descriptors one API response lists.
MaxUrls == 2

\* Number of method calls made on one generator.
MaxCalls == 2

\* ------------------------------------------------------------ value domains

Models == {"dall-e", "dall-e-3"}
Qualities == {"high", "low"}
Ns == {-1, 0, 1, 2}
Dims == {"1024x1024", "1024x1792", "1792x1024", "800x600", ""}
Descriptions == {"A forest at sunset", "A futuristic cityscape"}
UrlPool == {"https://example.com/image1.png", "https://example.com/image2.png"}
Payloads == {"png_A", "png_B", "junk"}
Statuses == {200, 404}
ApiErrors == {"APIConnectionError", "RateLimitError"}
FetchErrors == {"Timeout", "ConnectionError"}

None == [none |-> TRUE]
Ok(v) == [ok |-> TRUE, val |-> v]
Raise(e) == [ok |-> FALSE, err |-> e]

\* requests.get(url, timeout=10)
Timeout == 10

\* The configuration dictionaries load_config may return.
Configs ==
    [n_image : Ns, image_dim : Dims, image_model : Models, image_quality : Qualities]

\* The .data lists the generation API may answer with: 0..MaxUrls descriptors.
Descriptor(u) == [url |-> u]
ApiData ==
    UNION { [1..k -> {Descriptor(u) : u \in UrlPool}] : k \in 0..MaxUrls }

\* The responses an image host may give: any status with any body.
Responses == [status_code : Statuses, content : Payloads]

\* ------------------------------------------------------------------- state

VARIABLES
    mainpc,                 \* position of main()
    params,                 \* main's params: the loaded configuration
    image_generator,        \* main's image_generator: the constructed object
    mainErr,                \* the exception that ended main(), if any
    calls,                  \* number of method calls started so far
    pc,                     \* position inside the running method call
    op,                     \* the method that was called
    arg,                    \* its argument (a description or a URL)
    generated_image_urls,   \* get_images' local
    images,                 \* get_images' local
    ret,                    \* what the call returned or raised
    log                     \* external calls of the current method call

vars ==
    <<mainpc, params, image_generator, mainErr, calls, pc, op, arg,
      generated_image_urls, images, ret, log>>

mainVars == <<mainpc, params, image_generator, mainErr>>
frameVars == <<pc, op, arg, generated_image_urls, images, ret, log>>

\* ------------------------------------------------------- ImageGenerator

AllowedDimsSquareOnly == {"1024x1024"}

\* The list __init__ tests dim against.
AllowedDims == {"1024x1024", "1024x1792", "1792x1024"}

\* __init__: the four attributes as assigned, then the dim check.
NewImageGenerator(model, quality, n, dim) ==
    LET self == [model |-> model, quality |-> quality, n |-> n, dim |-> dim]
    IN  IF self.dim \notin AllowedDims THEN Raise("ValueError") ELSE Ok(self)

\* The f-string prompt of generate_visual.
Prompt(visual_description) ==
    "Create a visual following this description: " \o visual_description

\* The keyword arguments generate_visual passes to openai.images.generate.
GenerateRequest(self, visual_description) ==
    [model |-> self.model,
     prompt |-> Prompt(visual_description),
     size |-> self.dim,
     quality |-> self.quality,
     n |-> self.n]

RECURSIVE Reversed(_)
Reversed(s) == IF s = <<>> THEN <<>> ELSE Reversed(Tail(s)) \o <<Head(s)>>

UrlsReversed(responses) ==
    Reversed([i \in 1..Len(responses) |-> responses[i].url])

\* [response.url for response in responses]
UrlsOf(responses) == [i \in 1..Len(responses) |-> responses[i].url]

ContentIfOk(response) ==
    IF response.status_code >= 400 THEN Raise("HTTPError") ELSE Ok(response.content)

\* get_image_from_url's return: .content of whatever response arrived.
ContentOf(response) == Ok(response.content)

\* PIL.Image.open(io.BytesIO(data)): an image object over the buffer, or an
\* error for bytes that are no image.
ImageOpen(data) ==
    IF data = "junk"
    THEN Raise("UnidentifiedImageError")
    ELSE Ok([format |-> "PNG", fp |-> data])

LastImage(imgs) ==
    IF Len(imgs) = 0 THEN Raise("IndexError") ELSE Ok(imgs[Len(imgs)])

\* images[0]
FirstImage(imgs) ==
    IF Len(imgs) = 0 THEN Raise("IndexError") ELSE Ok(imgs[1])

NextUrlFromEnd(urls, imgs) == urls[Len(urls) - Len(imgs)]

\* The for loop of get_images: the URL the next iteration binds.
NextUrl(urls, imgs) == urls[Len(imgs) + 1]

\* ------------------------------------------------------------------- Init

Init ==
    /\ mainpc = "start"
    /\ params = None
    /\ image_generator = None
    /\ mainErr = None
    /\ calls = 0
    /\ pc = "idle"
    /\ op = "none"
    /\ arg = ""
    /\ generated_image_urls = <<>>
    /\ images = <<>>
    /\ ret = None
    /\ log = <<>>

\* ------------------------------------------------------------------ main()

\* params = load_config(config_path="configs/params.yml")
LoadConfig ==
    /\ mainpc = "start"
    /\ \E c \in Configs : params' = c
    /\ mainpc' = "configured"
    /\ UNCHANGED <<image_generator, mainErr, calls>>
    /\ UNCHANGED frameVars

ConstructUnchecked ==
    /\ mainpc = "configured"
    /\ image_generator' =
           [model |-> params.image_model, quality |-> params.image_quality,
            n |-> params.n_image, dim |-> params.image_dim]
    /\ mainpc' = "constructed"
    /\ UNCHANGED <<params, mainErr, calls>>
    /\ UNCHANGED frameVars

\* image_generator = ImageGenerator(n=..., dim=..., model=..., quality=...);
\* a ValueError leaves main() with no object bound.
Construct ==
    /\ mainpc = "configured"
    /\ LET r == NewImageGenerator(params.image_model, params.image_quality,
                                  params.n_image, params.image_dim)
       IN  IF r.ok
           THEN /\ image_generator' = r.val
                /\ mainpc' = "constructed"
                /\ mainErr' = mainErr
           ELSE /\ image_generator' = image_generator
                /\ mainpc' = "crashed"
                /\ mainErr' = r
    /\ UNCHANGED <<params, calls>>
    /\ UNCHANGED frameVars

\* demo = gradio.Interface(fn=image_generator.get_images, ...)
CreateInterface ==
    /\ mainpc = "constructed"
    /\ mainpc' = "interface"
    /\ UNCHANGED <<params, image_generator, mainErr, calls>>
    /\ UNCHANGED frameVars

\* demo.launch()
Launch ==
    /\ mainpc = "interface"
    /\ mainpc' = "serving"
    /\ UNCHANGED <<params, image_generator, mainErr, calls>>
    /\ UNCHANGED frameVars

\* ------------------------------------------------------------ method calls

\* The generator is reachable by callers once main() has launched the UI.
CanCall ==
    /\ mainpc = "serving"
    /\ pc = "idle"
    /\ calls < MaxCalls

GenerateEvent(self, visual_description) ==
    [ev |-> "generate", kwargs |-> GenerateRequest(self, visual_description)]

GetEvent(url) == [ev |-> "get", url |-> url, timeout |-> Timeout]

\* The UI invokes image_generator.get_images(visual_description); its first
\* statement is the generate_visual call, which sends the API request.
CallGetImages ==
    /\ CanCall
    /\ \E d \in Descriptions :
        /\ arg' = d
        /\ log' = <<GenerateEvent(image_generator, d)>>
    /\ op' = "get_images"
    /\ pc' = "generate"
    /\ calls' = calls + 1
    /\ UNCHANGED <<generated_image_urls, images, ret>>
    /\ UNCHANGED mainVars

\* A direct call of generate_visual(visual_description).
CallGenerateVisual ==
    /\ CanCall
    /\ \E d \in Descriptions :
        /\ arg' = d
        /\ log' = <<GenerateEvent(image_generator, d)>>
    /\ op' = "generate_visual"
    /\ pc' = "generate"
    /\ calls' = calls + 1
    /\ UNCHANGED <<generated_image_urls, images, ret>>
    /\ UNCHANGED mainVars

\* A direct call of get_image_from_url(url): the GET is sent.
CallGetImageFromUrl ==
    /\ CanCall
    /\ \E u \in UrlPool :
        /\ arg' = u
        /\ log' = <<GetEvent(u)>>
    /\ op' = "get_image_from_url"
    /\ pc' = "get"
    /\ calls' = calls + 1
    /\ UNCHANGED <<generated_image_urls, images, ret>>
    /\ UNCHANGED mainVars

GenerateOkStoresCount ==
    /\ pc = "generate"
    /\ \E data \in ApiData :
        /\ log' = Append(log, [ev |-> "generate_ok", data |-> data])
        /\ image_generator' = [image_generator EXCEPT !.n = Len(data)]
        /\ IF op = "generate_visual"
           THEN /\ ret' = Ok(UrlsOf(data))
                /\ pc' = "done"
                /\ UNCHANGED <<generated_image_urls, images>>
           ELSE /\ generated_image_urls' = UrlsOf(data)
                /\ images' = <<>>
                /\ pc' = "loop"
                /\ ret' = ret
    /\ UNCHANGED <<mainpc, params, mainErr, calls, op, arg>>

\* openai.images.generate answers: generate_visual returns the URL list; in
\* get_images the list is bound and images = [] starts the loop.
GenerateOk ==
    /\ pc = "generate"
    /\ \E data \in ApiData :
        /\ log' = Append(log, [ev |-> "generate_ok", data |-> data])
        /\ IF op = "generate_visual"
           THEN /\ ret' = Ok(UrlsOf(data))
                /\ pc' = "done"
                /\ UNCHANGED <<generated_image_urls, images>>
           ELSE /\ generated_image_urls' = UrlsOf(data)
                /\ images' = <<>>
                /\ pc' = "loop"
                /\ ret' = ret
    /\ UNCHANGED <<calls, op, arg>>
    /\ UNCHANGED mainVars

\* openai.images.generate raises: nothing catches it.
GenerateFail ==
    /\ pc = "generate"
    /\ \E e \in ApiErrors :
        /\ log' = Append(log, [ev |-> "generate_err", err |-> e])
        /\ ret' = Raise(e)
    /\ pc' = "done"
    /\ UNCHANGED <<calls, op, arg, generated_image_urls, images>>
    /\ UNCHANGED mainVars

\* One iteration of the for loop starts: get_image_from_url(image_url) sends
\* its GET and blocks.
LoopFetch ==
    /\ pc = "loop"
    /\ Len(images) < Len(generated_image_urls)
    /\ log' = Append(log, GetEvent(NextUrl(generated_image_urls, images)))
    /\ pc' = "get"
    /\ UNCHANGED <<calls, op, arg, generated_image_urls, images, ret>>
    /\ UNCHANGED mainVars

\* requests.get answers: get_image_from_url returns; in get_images the
\* buffer is appended and the loop goes on.
FetchOk ==
    /\ pc = "get"
    /\ \E r \in Responses :
        /\ log' = Append(log, [ev |-> "get_ok", response |-> r])
        /\ LET c == ContentOf(r)
           IN  IF c.ok /\ op = "get_images"
               THEN /\ images' = Append(images, c.val)
                    /\ pc' = "loop"
                    /\ ret' = ret
               ELSE /\ ret' = c
                    /\ pc' = "done"
                    /\ images' = images
    /\ UNCHANGED <<calls, op, arg, generated_image_urls>>
    /\ UNCHANGED mainVars

FetchFailFallsBack ==
    /\ pc = "get"
    /\ \E e \in FetchErrors :
        /\ log' = Append(log, [ev |-> "get_err", err |-> e])
        /\ IF op = "get_images"
           THEN /\ images' = Append(images, "junk")
                /\ pc' = "loop"
                /\ ret' = ret
           ELSE /\ ret' = Raise(e)
                /\ pc' = "done"
                /\ images' = images
    /\ UNCHANGED <<calls, op, arg, generated_image_urls>>
    /\ UNCHANGED mainVars

\* requests.get raises (transport failure or the timeout): nothing catches it.
FetchFail ==
    /\ pc = "get"
    /\ \E e \in FetchErrors :
        /\ log' = Append(log, [ev |-> "get_err", err |-> e])
        /\ ret' = Raise(e)
    /\ pc' = "done"
    /\ UNCHANGED <<calls, op, arg, generated_image_urls, images>>
    /\ UNCHANGED mainVars

ReturnImageOrNone ==
    /\ pc = "loop"
    /\ Len(images) = Len(generated_image_urls)
    /\ IF Len(images) = 0
       THEN /\ ret' = Ok(None)
            /\ log' = log
       ELSE /\ log' = Append(log, [ev |-> "open", data |-> images[1]])
            /\ ret' = ImageOpen(images[1])
    /\ pc' = "done"
    /\ UNCHANGED <<calls, op, arg, generated_image_urls, images>>
    /\ UNCHANGED mainVars

\* The loop is exhausted: return Image.open(io.BytesIO(images[0])).  The
\* subscript raises on an empty list before Image.open is reached.
ReturnImage ==
    /\ pc = "loop"
    /\ Len(images) = Len(generated_image_urls)
    /\ LET first == FirstImage(images)
       IN  IF first.ok
           THEN /\ log' = Append(log, [ev |-> "open", data |-> first.val])
                /\ ret' = ImageOpen(first.val)
           ELSE /\ ret' = first
                /\ log' = log
    /\ pc' = "done"
    /\ UNCHANGED <<calls, op, arg, generated_image_urls, images>>
    /\ UNCHANGED mainVars

\* The caller takes the result (the UI shows the image or the error); the
\* call's locals are gone.
Deliver ==
    /\ pc = "done"
    /\ pc' = "idle"
    /\ op' = "none"
    /\ arg' = ""
    /\ generated_image_urls' = <<>>
    /\ images' = <<>>
    /\ ret' = None
    /\ log' = <<>>
    /\ UNCHANGED calls
    /\ UNCHANGED mainVars

\* ------------------------------------------------------------------- Next

Next ==
    \/ LoadConfig
    \/ Construct
    \/ CreateInterface
    \/ Launch
    \/ CallGetImages
    \/ CallGenerateVisual
    \/ CallGetImageFromUrl
    \/ GenerateOk
    \/ GenerateFail
    \/ LoopFetch
    \/ FetchOk
    \/ FetchFail
    \/ ReturnImage
    \/ Deliver

Spec == Init /\ [][Next]_vars

\* ------------------------------------------------------------ properties

\* Indices of the log's events of one kind, and their number.
At(kind) == {i \in 1..Len(log) : log[i].ev = kind}
Count(kind) == Cardinality(At(kind))

\* The generation API has answered the current call with a .data list.
Answered == Len(log) >= 2 /\ log[2].ev = "generate_ok"

\* C1: construction with a dim outside the three allowed strings fails with
\* ValueError and leaves no object, whatever model, quality and n are;
\* construction with an allowed dim succeeds and the object holds model,
\* quality, n and dim exactly as passed.
C1_ConstructionContract ==
    mainpc \notin {"start", "configured"} =>
        IF params.image_dim \in {"1024x1024", "1024x1792", "1792x1024"}
        THEN /\ mainpc # "crashed"
             /\ mainErr = None
             /\ image_generator.model = params.image_model
             /\ image_generator.quality = params.image_quality
             /\ image_generator.n = params.n_image
             /\ image_generator.dim = params.image_dim
             /\ DOMAIN image_generator = {"model", "quality", "n", "dim"}
        ELSE /\ mainpc = "crashed"
             /\ mainErr = Raise("ValueError")
             /\ image_generator = None

C1_Witness ==
    /\ mainpc = "crashed"
    /\ params = [n_image |-> 1, image_dim |-> "800x600",
                 image_model |-> "dall-e", image_quality |-> "high"]

\* C2: in a run whose configuration carries an unsupported dim, no method call
\* is ever started, so no generation request and no fetch is ever sent, and
\* main() never reaches the creation or the launch of the UI interface.
C2_NoNetworkAfterBadDim ==
    (mainpc # "start"
       /\ params.image_dim \notin {"1024x1024", "1024x1792", "1792x1024"}) =>
        /\ calls = 0
        /\ log = <<>>
        /\ pc = "idle"
        /\ mainpc \in {"configured", "crashed"}

C2_Witness ==
    /\ mainpc = "crashed"
    /\ mainErr = Raise("ValueError")
    /\ params = [n_image |-> -1, image_dim |-> "800x600",
                 image_model |-> "dall-e-3", image_quality |-> "low"]

\* C3: a call that reaches generate_visual sends exactly one generation
\* request, carrying the configured model, quality, n and dim; once the API
\* has answered with descriptors of URLs u1..uN (N >= 0), the list
\* generate_visual returns is exactly u1..uN: same length, same elements, same
\* order.
C3_GenerateVisualReturnsUrls ==
    op \in {"generate_visual", "get_images"} =>
        /\ At("generate") = {1}
        /\ log[1].kwargs.model = params.image_model
        /\ log[1].kwargs.quality = params.image_quality
        /\ log[1].kwargs.n = params.n_image
        /\ log[1].kwargs.size = params.image_dim
        /\ Answered =>
               LET data == log[2].data
                   urls == IF op = "generate_visual"
                           THEN ret.val
                           ELSE generated_image_urls
               IN  /\ op = "generate_visual" => (pc = "done" /\ ret.ok)
                   /\ Len(urls) = Len(data)
                   /\ \A i \in 1..Len(data) : urls[i] = data[i].url

C3_Witness ==
    /\ op = "generate_visual"
    /\ pc = "done"
    /\ ret.ok
    /\ Len(ret.val) = 2
    /\ ret.val[1] # ret.val[2]

\* C4: whenever get_images returns an image, the API listed N >= 1 URLs and
\* the image is the decode of the bytes fetched for the first of them,
\* whatever the other URLs yielded.
C4_FirstUrlDecoded ==
    (op = "get_images" /\ pc = "done" /\ ret.ok) =>
        /\ Answered
        /\ Len(log[2].data) >= 1
        /\ log[3].ev = "get"
        /\ log[3].url = log[2].data[1].url
        /\ log[4].ev = "get_ok"
        /\ ret = ImageOpen(log[4].response.content)

C4_Witness ==
    /\ op = "get_images"
    /\ pc = "done"
    /\ ret.ok
    /\ Len(log[2].data) = 2
    /\ log[6].response.content # log[4].response.content
    /\ log[6].response.content # "junk"

\* C5: every fetch that completes was sent once, for the URL given, and its
\* payload is returned unchanged whatever the status code: a direct call of
\* get_image_from_url returns exactly the payload, and inside get_images the
\* k-th completed fetch is the k-th buffer of images.
C5_FetchReturnsPayload ==
    /\ \A i \in At("get_ok") :
        /\ i > 1
        /\ log[i - 1].ev = "get"
        /\ IF op = "get_image_from_url"
           THEN /\ pc = "done"
                /\ ret = Ok(log[i].response.content)
           ELSE LET k == Cardinality({j \in At("get_ok") : j <= i})
                IN  /\ Len(images) >= k
                    /\ images[k] = log[i].response.content
    /\ op = "get_image_from_url" =>
        /\ At("get") = {1}
        /\ log[1].url = arg
        /\ Len(log) <= 2

C5_Witness ==
    /\ op = "get_image_from_url"
    /\ pc = "done"
    /\ log[2].ev = "get_ok"
    /\ log[2].response.status_code = 404
    /\ ret = Ok("png_A")

\* C6: in a get_images call at most one fetch is in flight at any time, every
\* fetch is sent only after the previous one completed, and a successful call
\* made exactly these external calls in this order: one generation request,
\* one fetch per returned URL in the API's order, one decode after the last
\* fetch completed.
C6_CallOrder ==
    op = "get_images" =>
        /\ Count("get") - Count("get_ok") - Count("get_err") =
               (IF pc = "get" THEN 1 ELSE 0)
        /\ \A i \in At("get") :
               i < Len(log) => log[i + 1].ev \in {"get_ok", "get_err"}
        /\ (pc = "done" /\ ret.ok) =>
               LET n == Len(log[2].data)
               IN  /\ Len(log) = 2 * n + 3
                   /\ log[1].ev = "generate"
                   /\ log[2].ev = "generate_ok"
                   /\ \A k \in 1..n :
                        /\ log[2 * k + 1].ev = "get"
                        /\ log[2 * k + 1].url = log[2].data[k].url
                        /\ log[2 * k + 2].ev = "get_ok"
                   /\ log[2 * n + 3].ev = "open"

C6_Witness ==
    /\ op = "get_images"
    /\ pc = "done"
    /\ ret.ok
    /\ Len(log[2].data) = 2
    /\ log[2].data[1].url # log[2].data[2].url

\* C7: a failing step of get_images ends the call with that step's error and
\* nothing after it: a failed generation request is followed by no fetch and
\* no decode, a failed fetch (of any URL) by no further fetch and no decode,
\* a failed decode by nothing; no image is returned and no external call is
\* made twice.
C7_FailuresSurface ==
    op = "get_images" =>
        /\ \A i \in At("generate_err") :
            /\ i = 2 /\ Len(log) = 2
            /\ pc = "done" /\ ret = Raise(log[i].err)
        /\ \A i \in At("get_err") :
            /\ i = Len(log)
            /\ Count("open") = 0
            /\ pc = "done" /\ ret = Raise(log[i].err)
        /\ \A i \in At("open") :
            /\ i = Len(log)
            /\ pc = "done"
            /\ ~ImageOpen(log[i].data).ok =>
                   ret = Raise("UnidentifiedImageError")
        /\ Count("generate") = 1
        /\ Count("open") <= 1
        /\ Answered => Count("get") <= Len(log[2].data)

C7_Witness ==
    /\ op = "get_images"
    /\ pc = "done"
    /\ Len(log) = 6
    /\ log[4].ev = "get_ok"
    /\ log[4].response = [status_code |-> 200, content |-> "png_A"]
    /\ log[6].ev = "get_err"
    /\ ret = Raise("Timeout")

\* C8: every constructed generator has n >= 1, and every generation request
\* sent carries n >= 1.
C8_CountPositive ==
    /\ image_generator # None => image_generator.n >= 1
    /\ \A i \in At("generate") : log[i].kwargs.n >= 1

\* What a get_images call on a freshly constructed generator yields for the
\* external answers the log records.
FreshResult ==
    IF log[2].ev = "generate_err"
    THEN Raise(log[2].err)
    ELSE LET answers == SelectSeq(log, LAMBDA e : e.ev \in {"get_ok", "get_err"})
         IN  IF \E i \in 1..Len(answers) : answers[i].ev = "get_err"
             THEN Raise(answers[Len(answers)].err)
             ELSE IF log[2].data = <<>>
                  THEN Raise("IndexError")
                  ELSE ImageOpen(answers[1].response.content)

\* C9: no method call changes model, quality, n or dim, and nothing is carried
\* from one call to the next: whatever calls came before, a get_images call
\* sends the request a fresh generator would send for the description and
\* ends as a fresh generator would on the same external answers.
C9_Stateless ==
    /\ image_generator # None =>
           image_generator =
               [model |-> params.image_model, quality |-> params.image_quality,
                n |-> params.n_image, dim |-> params.image_dim]
    /\ op = "get_images" =>
           log[1] = [ev |-> "generate",
                     kwargs |-> [model |-> params.image_model,
                                 prompt |-> Prompt(arg),
                                 size |-> params.image_dim,
                                 quality |-> params.image_quality,
                                 n |-> params.n_image]]
    /\ (op = "get_images" /\ pc = "done") => ret = FreshResult
    /\ pc = "idle" =>
           /\ generated_image_urls = <<>> /\ images = <<>>
           /\ ret = None /\ log = <<>>

C9_Witness ==
    /\ calls = 2
    /\ op = "get_images"
    /\ pc = "done"
    /\ ret.ok

\* C10: when the API answers with an empty list, get_images makes no fetch and
\* no decode and ends with an IndexError; it returns an image only when the
\* API listed at least one URL.
C10_EmptyListIndexError ==
    op = "get_images" =>
        /\ (Answered /\ log[2].data = <<>>) =>
               /\ Len(log) = 2
               /\ pc \in {"loop", "done"}
               /\ pc = "done" => ret = Raise("IndexError")
        /\ (pc = "done" /\ ret.ok) =>
               /\ Len(log[2].data) >= 1
               /\ ret.val # None

C10_Witness ==
    /\ op = "get_images"
    /\ pc = "done"
    /\ Answered
    /\ log[2].data = <<>>
    /\ ret = Raise("IndexError")

====
